---- MODULE Spec2Model ----
(***************************************************************************)
(* A model of app.py, a Streamlit page that extracts the text and the      *)
(* embedded images of an uploaded PDF and asks a remote model to summarise *)
(* the text and to describe every image.                                   *)
(*                                                                         *)
(* Streamlit re-executes the whole script on every user interaction (a     *)
(* "rerun").  One rerun is modelled as one atomic step of the UI thread,   *)
(* except for the analyze handler, whose ThreadPoolExecutor block is       *)
(* interleaved with the worker threads: submission, each job's start and   *)
(* end, future_summary.result(), each iteration of the as_completed loop,  *)
(* and the exit of the with-block followed by publication and display.     *)
(***************************************************************************)
EXTENDS Integers, Sequences, FiniteSets, TLC

(***************************************************************************)
(* Bounds of the model.                                                    *)
(***************************************************************************)
\* analyze requests (button clicks) followed in one session
MaxRuns == 2
\* the pool sizes explored are 1..MaxWorkers.  ThreadPoolExecutor() takes the
\* default size, min(32, cpu_count + 4); small pools make jobs wait in the
\* queue, as they do in the program once there are more images than workers
MaxWorkers == 2
\* documents drawn for the extraction specification: pages per document,
\* image references per document, distinct embedded images (xrefs)
MaxPages == 2
MaxRefs == 3
MaxXref == 2

(***************************************************************************)
(* Values.                                                                 *)
(***************************************************************************)
None == "None"

EmptyDict == [k \in {} |-> 0]

Put(m, k, v) == [x \in DOMAIN m \cup {k} |-> IF x = k THEN v ELSE m[x]]

Range(s) == {s[i] : i \in DOMAIN s}

\* the bytes doc.extract_image(xref)["image"] yields for embedded image xref
ImageBytes(xref) == 100 + xref

\* image blobs PIL's Image.open cannot decode
Undecodable == {ImageBytes(3)}

(***************************************************************************)
(* The files a user can upload.  A file is its file_id and the bytes       *)
(* behind it: whether fitz can open them, the pages' text and the pages'   *)
(* image references, and the xrefs doc.extract_image fails on.             *)
(***************************************************************************)
\* The uploader hands the script a file_id; the script puts no constraint on
\* it, and its test of line 134 provides for a file_id that is stored already.
\* fA: two pages, four image references, one that cannot be extracted and one
\* whose blob cannot be decoded; fB: one image; fC: no PDF; fD: no image.
FileIds == {"fA", "fB", "fC", "fD"}

Page(text, refs) == [text |-> text, refs |-> refs]

FileBytes(f) ==
    CASE f = "fA" ->
           [valid |-> TRUE,
            pages |-> << Page(<<"a1">>, <<1, 9>>), Page(<<"a2">>, <<2, 3>>) >>,
            bad |-> {9}]
      [] f = "fB" ->
           [valid |-> TRUE, pages |-> << Page(<<"b1">>, <<4>>) >>, bad |-> {}]
      [] f = "fC" ->
           [valid |-> FALSE, pages |-> << >>, bad |-> {}]
      [] OTHER ->
           [valid |-> TRUE, pages |-> << Page(<<"d1">>, << >>) >>, bad |-> {}]

(***************************************************************************)
(* Extraction (extract_text_from_pdf, extract_images_from_pdf).  A call    *)
(* either returns a value or raises (fitz.open on bytes that are no PDF).  *)
(***************************************************************************)
Returned(v) == [raised |-> FALSE, value |-> v]

Raised == [raised |-> TRUE, value |-> << >>]

RECURSIVE JoinText(_)
JoinText(pages) ==
    IF pages = << >> THEN << >>
    ELSE Head(pages).text \o JoinText(Tail(pages))

extract_text(pdf) ==
    IF ~pdf.valid THEN Raised ELSE Returned(JoinText(pdf.pages))

\* The state of the extraction loops: the list built so far, and whether an
\* exception has left the loops.
Loop(image_list, raised) == [image_list |-> image_list, raised |-> raised]

\* a mutant of OnExtractFailure: the exception is not caught and ends the loops
OnExtractFailureRaise(loop) == Loop(loop.image_list, TRUE)

\* except Exception: continue -- the failing reference is skipped
OnExtractFailure(loop) == loop

\* a mutant of OnExtracted: an image already in the list is not appended again
OnExtractedOnce(loop, xref) ==
    IF ImageBytes(xref) \in Range(loop.image_list) THEN loop
    ELSE Loop(Append(loop.image_list, ImageBytes(xref)), loop.raised)

\* image_bytes = base_image["image"]; image_list.append(image_bytes)
OnExtracted(loop, xref) ==
    Loop(Append(loop.image_list, ImageBytes(xref)), loop.raised)

\* for img in page.get_images(full=True): the references of one page in their
\* listed order; doc.extract_image(xref) raises for the xrefs in bad
RECURSIVE PageLoop(_, _, _)
PageLoop(loop, refs, bad) ==
    IF refs = << >> \/ loop.raised THEN loop
    ELSE LET xref == Head(refs)
         IN PageLoop(IF xref \in bad THEN OnExtractFailure(loop)
                                     ELSE OnExtracted(loop, xref),
                     Tail(refs), bad)

\* for page in doc: the pages in order
RECURSIVE DocLoop(_, _, _)
DocLoop(loop, pages, bad) ==
    IF pages = << >> \/ loop.raised THEN loop
    ELSE DocLoop(PageLoop(loop, Head(pages).refs, bad), Tail(pages), bad)

extract_images(pdf) ==
    IF ~pdf.valid THEN Raised
    ELSE LET loop == DocLoop(Loop(<< >>, FALSE), pdf.pages, pdf.bad)
         IN IF loop.raised THEN Raised ELSE Returned(loop.image_list)

\* @st.cache_data: a call with a key seen before returns the memoized value
\* without running the function; a call that raises memoizes nothing.
\* A mutant of cache_data: the memo is looked up without the argument.
cache_data_unkeyed(cache, key, call) ==
    IF DOMAIN cache # {}
    THEN [result |-> Returned(cache[CHOOSE k \in DOMAIN cache : TRUE]), cache |-> cache]
    ELSE IF call.raised THEN [result |-> call, cache |-> cache]
    ELSE [result |-> call, cache |-> Put(cache, key, call.value)]

\* A mutant of cache_data: the outcome of a raising call is memoized as well.
cache_data_keeps_failure(cache, key, call) ==
    IF key \in DOMAIN cache
    THEN [result |-> Returned(cache[key]), cache |-> cache]
    ELSE [result |-> Returned(call.value), cache |-> Put(cache, key, call.value)]

cache_data(cache, key, call) ==
    IF key \in DOMAIN cache
    THEN [result |-> Returned(cache[key]), cache |-> cache]
    ELSE IF call.raised THEN [result |-> call, cache |-> cache]
    ELSE [result |-> call, cache |-> Put(cache, key, call.value)]

(***************************************************************************)
(* The remote clients.  A summary or an image analysis is the string the   *)
(* client returned: the model's text or an error string.  It is recorded   *)
(* with the input it was computed from and the analyze request it belongs  *)
(* to, so that results of different files and requests can be told apart.  *)
(***************************************************************************)
ApiOutcomes == {"ok", "fail"}

NoSummary == [kind |-> "none", text |-> << >>, run |-> 0]

Summary(kind, full_text, run) == [kind |-> kind, text |-> full_text, run |-> run]

\* None, the initial content of a slot of image_results
NoAnalysis == [kind |-> "none", img |-> 0, run |-> 0]

Analysis(kind, image_bytes, run) == [kind |-> kind, img |-> image_bytes, run |-> run]

Raises(v) == [raised |-> TRUE, value |-> v]

\* a mutant of SummaryFailure: the exception leaves get_gemini_summary
SummaryFailureRaise(full_text, run) == Raises(NoSummary)

\* except Exception as e: return f"<error text>: {e}"
SummaryFailure(full_text, run) == Returned(Summary("err", full_text, run))

get_gemini_summary(full_text, api, run) ==
    IF api = "ok" THEN Returned(Summary("ok", full_text, run))
    ELSE SummaryFailure(full_text, run)

\* Image.open is outside the try: an undecodable blob raises out of the
\* function; a failure of generate_content is returned as an error string
get_gemini_vision_analysis(image_bytes, api, run) ==
    IF image_bytes \in Undecodable THEN Raises(NoAnalysis)
    ELSE IF api = "ok" THEN Returned(Analysis("ok", image_bytes, run))
    ELSE Returned(Analysis("err", image_bytes, run))

\* a mutant of summary_calls: a failed request is sent once more
summary_calls_retry(full_text, api) == IF api = "fail" THEN 2 ELSE 1

\* the requests one execution of get_gemini_summary sends: generate_content is
\* called once, and the except clause returns without calling it again
summary_calls(full_text, api) == 1

\* a mutant of vision_calls: a failed request is sent once more
vision_calls_retry(image_bytes, api) ==
    IF image_bytes \in Undecodable THEN 0 ELSE IF api = "fail" THEN 2 ELSE 1

\* the requests one execution of get_gemini_vision_analysis sends: none when
\* Image.open raises (it comes before the request), else one
vision_calls(image_bytes, api) ==
    IF image_bytes \in Undecodable THEN 0 ELSE 1

(***************************************************************************)
(* Futures of the executor.                                                *)
(***************************************************************************)
Future(st, outcome) == [st |-> st, raised |-> outcome.raised, value |-> outcome.value]

\* a mutant of ResultSlot: results are stored in the order of completion
ResultSlotByCompletion(index, yielded) == Cardinality(yielded)

\* index = future_images[future]: the slot of a result is the position of the
\* image the future was submitted for (0-based)
ResultSlot(index, yielded) == index

\* a mutant of CollectedResult: the except clause keeps the slot as it is
CollectedResultUnset(future, image_bytes, run) ==
    IF future.raised THEN NoAnalysis ELSE future.value

\* try: image_results[index] = future.result()
\* except Exception as exc: image_results[index] = f"<error text>: {exc}"
CollectedResult(future, image_bytes, run) ==
    IF future.raised THEN Analysis("err", image_bytes, run) ELSE future.value

(***************************************************************************)
(* What a script run leaves on the page.                                   *)
(***************************************************************************)
Min(a, b) == IF a < b THEN a ELSE b

\* zip(extracted_images, image_analyses)
Zip(images, analyses) ==
    [i \in 1..Min(Len(images), Len(analyses)) |->
        [img |-> images[i], analysis |-> analyses[i]]]

\* error: "none", "config" (st.error and st.stop at startup) or "exception" (an
\* uncaught exception ends the run and is shown by the framework);
\* uploader, button: the widget was rendered; extracted: st.success of line
\* 143; spinner: an analysis is running; results: the block of line 179 ran
Screen(error, uploader, extracted, button, spinner, results, summary, count, pairs) ==
    [error |-> error, uploader |-> uploader, extracted |-> extracted,
     button |-> button, spinner |-> spinner, results |-> results,
     summary |-> summary, count |-> count, pairs |-> pairs]

NothingRendered == Screen("none", FALSE, FALSE, FALSE, FALSE, FALSE, NoSummary, 0, << >>)

ConfigErrorScreen == Screen("config", FALSE, FALSE, FALSE, FALSE, FALSE, NoSummary, 0, << >>)

NoFileScreen == Screen("none", TRUE, FALSE, FALSE, FALSE, FALSE, NoSummary, 0, << >>)

ExceptionScreen(extracted, button) ==
    Screen("exception", TRUE, extracted, button, FALSE, FALSE, NoSummary, 0, << >>)

SpinnerScreen == Screen("none", TRUE, TRUE, TRUE, TRUE, FALSE, NoSummary, 0, << >>)

\* lines 179-203: the results stored in the session, paired with the images
\* extracted in this run
Display(results, images) ==
    IF DOMAIN results = {}
    THEN Screen("none", TRUE, TRUE, TRUE, FALSE, FALSE, NoSummary, 0, << >>)
    ELSE Screen("none", TRUE, TRUE, TRUE, FALSE, TRUE, results.summary,
                Len(images), Zip(images, results.images))

(***************************************************************************)
(* State.                                                                  *)
(***************************************************************************)
VARIABLES
    api_key,            \* os.getenv("GOOGLE_API_KEY"): "present" or "absent"
    max_workers,        \* the size of the executor's pool
    session_keys,       \* the keys of st.session_state
    uploaded_files,     \* st.session_state['uploaded_files']: file_id -> bytes
    analysis_results,   \* st.session_state['analysis_results']
    file_id,            \* st.session_state['file_id']
    cache_text,         \* the memo of extract_text_from_pdf
    cache_images,       \* the memo of extract_images_from_pdf
    uploaded_file,      \* the value of the file uploader: None or a file_id
    screen,             \* what the last script run rendered
    pc,                 \* the UI thread: "idle" between runs, or inside the handler
    runs,               \* analyze requests so far
    prior,              \* history: analysis_results as the last request found it
    calls,              \* history: the remote calls the last request's jobs issued
    extracted_text,     \* locals of the run inside the handler
    extracted_images,
    future_summary,
    future_images,
    summary_result,
    image_results,
    yielded,            \* the futures as_completed has yielded (image indexes)
    pdf,                \* the extraction specification: the document drawn
    extraction          \* and what extract_images_from_pdf made of it

session == <<session_keys, uploaded_files, analysis_results, file_id>>

caches == <<cache_text, cache_images>>

handler == <<extracted_text, extracted_images, future_summary, future_images,
             summary_result, image_results, yielded>>

config == <<api_key, max_workers>>

pure == <<pdf, extraction>>

vars == <<config, session, caches, uploaded_file, screen, pc, runs, prior, calls, handler, pure>>

AllKeys == {"uploaded_files", "analysis_results", "file_id"}

\* no request yet: no remote call
NoCalls == [summary |-> 0, images |-> << >>]

NotRun == [done |-> FALSE, raised |-> FALSE, value |-> << >>]

NoPdf == [valid |-> FALSE, pages |-> << >>, bad |-> {}]

IdleHandler ==
    /\ extracted_text = << >>
    /\ extracted_images = << >>
    /\ future_summary = Future("none", Returned(NoSummary))
    /\ future_images = << >>
    /\ summary_result = NoSummary
    /\ image_results = << >>
    /\ yielded = {}

Init ==
    /\ api_key \in {"present", "absent"}
    /\ max_workers \in 1..MaxWorkers
    /\ session_keys = {}
    /\ uploaded_files = EmptyDict
    /\ analysis_results = EmptyDict
    /\ file_id = None
    /\ cache_text = EmptyDict
    /\ cache_images = EmptyDict
    /\ uploaded_file = None
    /\ screen = NothingRendered
    /\ pc = "idle"
    /\ runs = 0
    /\ prior = EmptyDict
    /\ calls = NoCalls
    /\ IdleHandler
    /\ pdf = NoPdf
    /\ extraction = NotRun

(***************************************************************************)
(* One script run, from the top of the script to the analyze button (and,  *)
(* when the button was not clicked, to the end of the script).             *)
(***************************************************************************)
\* a mutant of ConfigHalts: st.stop() is missing after st.error
ConfigNeverHalts(key) == FALSE

\* if not api_key: st.error(...); st.stop()
ConfigHalts(key) == key = "absent"

\* a mutant of IsNewFile: every upload event is taken for a new file
AlwaysNewFile(fid, files) == TRUE

\* if file_id not in st.session_state['uploaded_files']
IsNewFile(fid, files) == fid \notin DOMAIN files

\* a mutant of ClearedForRun: the handler keeps the previous results
KeptForRun(results) == results

\* st.session_state.analysis_results = {} at the start of the handler
ClearedForRun(results) == EmptyDict

ResetHandler ==
    /\ extracted_text' = << >>
    /\ extracted_images' = << >>
    /\ future_summary' = Future("none", Returned(NoSummary))
    /\ future_images' = << >>
    /\ summary_result' = NoSummary
    /\ image_results' = << >>
    /\ yielded' = {}

\* lines 149-159: clear the stored results, create the pool, submit the jobs
Dispatch(results, text, images) ==
    /\ analysis_results' = ClearedForRun(results)
    /\ runs' = runs + 1
    /\ prior' = results
    /\ calls' = [summary |-> 0, images |-> [i \in 1..Len(images) |-> 0]]
    /\ extracted_text' = text
    /\ extracted_images' = images
    /\ future_summary' = Future("queued", Returned(NoSummary))
    /\ future_images' = [i \in 1..Len(images) |-> Future("queued", Returned(NoAnalysis))]
    /\ summary_result' = NoSummary
    /\ image_results' = << >>
    /\ yielded' = {}
    /\ screen' = SpinnerScreen
    /\ pc' = "summary"

\* lines 128-203 for an uploaded file; clicked: the analyze button was pressed
WithFile(fid, clicked) ==
    LET new == IsNewFile(fid, uploaded_files)
        files == IF new THEN Put(uploaded_files, fid, FileBytes(fid)) ELSE uploaded_files
        results == IF new THEN EmptyDict ELSE analysis_results
        text == cache_data(cache_text, fid, extract_text(files[fid]))
        images == cache_data(cache_images, fid, extract_images(files[fid]))
    IN /\ file_id' = fid
       /\ uploaded_files' = files
       /\ cache_text' = text.cache
       /\ IF text.result.raised
          THEN /\ cache_images' = cache_images
               /\ analysis_results' = results
               /\ screen' = ExceptionScreen(FALSE, FALSE)
               /\ UNCHANGED <<pc, runs, prior, calls, handler>>
          ELSE /\ cache_images' = images.cache
               /\ IF images.result.raised
                  THEN /\ analysis_results' = results
                       /\ screen' = ExceptionScreen(FALSE, FALSE)
                       /\ UNCHANGED <<pc, runs, prior, calls, handler>>
                  ELSE IF clicked
                  THEN Dispatch(results, text.result.value, images.result.value)
                  ELSE /\ analysis_results' = results
                       /\ screen' = Display(results, images.result.value)
                       /\ UNCHANGED <<pc, runs, prior, calls, handler>>

\* the script from its first line, with the uploader holding widget
Script(widget, clicked) ==
    /\ uploaded_file' = widget
    /\ UNCHANGED <<config, pure>>
    /\ IF ConfigHalts(api_key)
       THEN /\ screen' = ConfigErrorScreen
            /\ UNCHANGED <<session, caches, pc, runs, prior, calls, handler>>
       ELSE /\ session_keys' = AllKeys
            /\ IF widget = None
               THEN /\ screen' = NoFileScreen
                    /\ UNCHANGED <<uploaded_files, analysis_results, file_id,
                                   caches, pc, runs, prior, calls, handler>>
               ELSE WithFile(widget, clicked)

(***************************************************************************)
(* The user's events; each one starts a script run.                        *)
(***************************************************************************)
\* the page is loaded or rerun with its widgets as they are
Rerun ==
    /\ pc = "idle"
    /\ Script(uploaded_file, FALSE)

\* a file is put into the uploader
Upload(f) ==
    /\ pc = "idle"
    /\ screen.uploader
    /\ f # uploaded_file
    /\ Script(f, FALSE)

\* the file is taken out of the uploader
RemoveFile ==
    /\ pc = "idle"
    /\ screen.uploader
    /\ uploaded_file # None
    /\ Script(None, FALSE)

\* the analyze button is pressed
ClickAnalyze ==
    /\ pc = "idle"
    /\ screen.button
    /\ runs < MaxRuns
    /\ Script(uploaded_file, TRUE)

(***************************************************************************)
(* The worker threads of the ThreadPoolExecutor.                           *)
(***************************************************************************)
\* a mutant of Running: a worker that finished its job is not free again
RunningNeverFreed ==
    Cardinality({i \in DOMAIN future_images : future_images[i].st \in {"running", "done"}})
    + (IF future_summary.st \in {"running", "done"} THEN 1 ELSE 0)

Running ==
    Cardinality({i \in DOMAIN future_images : future_images[i].st = "running"})
    + (IF future_summary.st = "running" THEN 1 ELSE 0)

AllDone ==
    /\ future_summary.st = "done"
    /\ \A i \in DOMAIN future_images : future_images[i].st = "done"

\* a free worker takes the oldest queued job (the work queue is first in,
\* first out: the summary, then the images in the order of submission)
WorkerTake ==
    /\ pc # "idle"
    /\ Running < max_workers
    /\ IF future_summary.st = "queued"
       THEN /\ future_summary' = [future_summary EXCEPT !.st = "running"]
            /\ UNCHANGED future_images
       ELSE /\ \E i \in DOMAIN future_images :
                 /\ future_images[i].st = "queued"
                 /\ \A j \in 1..(i - 1) : future_images[j].st # "queued"
                 /\ future_images' = [future_images EXCEPT ![i].st = "running"]
            /\ UNCHANGED future_summary
    /\ UNCHANGED <<config, session, caches, uploaded_file, screen, pc, runs, prior, calls,
                   extracted_text, extracted_images, summary_result,
                   image_results, yielded, pure>>

\* get_gemini_summary(extracted_text) returns or raises in its worker
SummaryJob(api) ==
    /\ future_summary.st = "running"
    /\ future_summary' = Future("done", get_gemini_summary(extracted_text, api, runs))
    /\ calls' = [calls EXCEPT !.summary = @ + summary_calls(extracted_text, api)]
    /\ UNCHANGED <<config, session, caches, uploaded_file, screen, pc, runs, prior,
                   extracted_text, extracted_images, future_images,
                   summary_result, image_results, yielded, pure>>

\* get_gemini_vision_analysis(img_bytes) returns or raises in its worker
VisionJob(i, api) ==
    /\ i \in DOMAIN future_images
    /\ future_images[i].st = "running"
    /\ future_images' =
         [future_images EXCEPT
            ![i] = Future("done", get_gemini_vision_analysis(extracted_images[i], api, runs))]
    /\ calls' = [calls EXCEPT !.images[i] = @ + vision_calls(extracted_images[i], api)]
    /\ UNCHANGED <<config, session, caches, uploaded_file, screen, pc, runs, prior,
                   extracted_text, extracted_images, future_summary,
                   summary_result, image_results, yielded, pure>>

(***************************************************************************)
(* The UI thread inside the with-block of the handler.                     *)
(***************************************************************************)
\* summary_result = future_summary.result(); image_results = [None] * N.
\* An exception of the job is raised again here, where nothing catches it.
SummaryResult ==
    /\ pc = "summary"
    /\ future_summary.st = "done"
    /\ IF future_summary.raised
       THEN /\ pc' = "unwind"
            /\ UNCHANGED <<summary_result, image_results>>
       ELSE /\ pc' = "collect"
            /\ summary_result' = future_summary.value
            /\ image_results' = [i \in 1..Len(extracted_images) |-> NoAnalysis]
    /\ UNCHANGED <<config, session, caches, uploaded_file, screen, runs, prior, calls,
                   extracted_text, extracted_images, future_summary,
                   future_images, yielded, pure>>

\* one iteration of: for future in as_completed(future_images)
CollectNext(i) ==
    /\ pc = "collect"
    /\ i \in DOMAIN future_images \ yielded
    /\ future_images[i].st = "done"
    /\ image_results' =
         [image_results EXCEPT
            ![ResultSlot(i - 1, yielded) + 1] =
                CollectedResult(future_images[i], extracted_images[i], runs)]
    /\ yielded' = yielded \cup {i}
    /\ UNCHANGED <<config, session, caches, uploaded_file, screen, pc, runs, prior, calls,
                   extracted_text, extracted_images, future_summary,
                   future_images, summary_result, pure>>

\* a mutant of LoopExhausted: the loop is left after the first future
LoopLeftEarly == yielded # {} \/ future_images = << >>

\* as_completed has yielded every future of future_images
LoopExhausted == yielded = DOMAIN future_images

\* st.session_state.analysis_results = {'summary': ..., 'images': ...}
Published(summary, images) == [summary |-> summary, images |-> images]

\* The with-block is left once the loop is exhausted, or by the exception of
\* future_summary.result(); leaving it joins the pool (shutdown(wait=True)).
\* Then the results are published and displayed, or the exception ends the run.
ExitPool ==
    /\ \/ pc = "collect" /\ LoopExhausted
       \/ pc = "unwind"
    /\ AllDone
    /\ IF pc = "unwind"
       THEN /\ screen' = ExceptionScreen(TRUE, TRUE)
            /\ UNCHANGED analysis_results
       ELSE /\ analysis_results' = Published(summary_result, image_results)
            /\ screen' = Display(analysis_results', extracted_images)
    /\ pc' = "idle"
    /\ ResetHandler
    /\ UNCHANGED <<config, session_keys, uploaded_files, file_id, caches,
                   uploaded_file, runs, prior, calls, pure>>

Next ==
    \/ Rerun
    \/ \E f \in FileIds : Upload(f)
    \/ RemoveFile
    \/ ClickAnalyze
    \/ WorkerTake
    \/ \E api \in ApiOutcomes : SummaryJob(api)
    \/ \E i \in 1..Len(future_images), api \in ApiOutcomes : VisionJob(i, api)
    \/ SummaryResult
    \/ \E i \in 1..Len(future_images) : CollectNext(i)
    \/ ExitPool

Spec == Init /\ [][Next]_vars

(***************************************************************************)
(* The extraction specification: extract_images_from_pdf applied to every  *)
(* document within the bounds.                                             *)
(***************************************************************************)
SeqsUpTo(S, n) == UNION {[1..k -> S] : k \in 0..n}

Xrefs == 1..MaxXref

RECURSIVE CountRefs(_)
CountRefs(refs) ==
    IF refs = << >> THEN 0 ELSE Len(Head(refs)) + CountRefs(Tail(refs))

\* the document whose pages list the references refs[1], refs[2], ...
PdfOf(refs, bad) ==
    [valid |-> TRUE, pages |-> [i \in DOMAIN refs |-> Page(<<"t">>, refs[i])], bad |-> bad]

InitExtract ==
    /\ api_key = "present"
    /\ max_workers = 1
    /\ session_keys = {}
    /\ uploaded_files = EmptyDict
    /\ analysis_results = EmptyDict
    /\ file_id = None
    /\ cache_text = EmptyDict
    /\ cache_images = EmptyDict
    /\ uploaded_file = None
    /\ screen = NothingRendered
    /\ pc = "idle"
    /\ runs = 0
    /\ prior = EmptyDict
    /\ calls = NoCalls
    /\ IdleHandler
    /\ \/ pdf = NoPdf
       \/ \E k \in 0..MaxPages :
             \E refs \in [1..k -> SeqsUpTo(Xrefs, MaxRefs)] :
                /\ CountRefs(refs) <= MaxRefs
                /\ \E bad \in SUBSET Xrefs : pdf = PdfOf(refs, bad)
    /\ extraction = NotRun

ExtractImages ==
    /\ ~extraction.done
    /\ extraction' = [done |-> TRUE,
                      raised |-> extract_images(pdf).raised,
                      value |-> extract_images(pdf).value]
    /\ UNCHANGED <<config, session, caches, uploaded_file, screen, pc, runs, prior, calls,
                   handler, pdf>>

NextExtract == ExtractImages

SpecExtract == InitExtract /\ [][NextExtract]_vars

(***************************************************************************)
(* Properties.                                                             *)
(***************************************************************************)
\* the extraction of the bytes stored under file_id f
TextOf(f) == extract_text(uploaded_files[f]).value

ImagesOf(f) == extract_images(uploaded_files[f]).value

HasResults == DOMAIN analysis_results # {}

\* C1: whenever a file is current, the stored and the displayed summary and
\* image analyses were produced from the text and the images of that file:
\* a change of the current file clears the results of the file before it,
\* also when the new current file had been uploaded earlier in the session.
C1_ResultsBelongToCurrentFile ==
    /\ (file_id # None /\ HasResults) =>
          /\ analysis_results.summary.text = TextOf(file_id)
          /\ Len(analysis_results.images) = Len(ImagesOf(file_id))
          /\ \A i \in DOMAIN analysis_results.images :
                analysis_results.images[i].img = ImagesOf(file_id)[i]
    /\ (pc = "idle" /\ screen.results) =>
          /\ screen.summary.text = TextOf(file_id)
          /\ \A i \in DOMAIN screen.pairs :
                screen.pairs[i].analysis.img = screen.pairs[i].img

\* the outcome line 167 or 169 stores for the job of image i (1-based)
OutcomeOf(i) ==
    IF future_images[i].raised THEN Analysis("err", extracted_images[i], runs)
    ELSE future_images[i].value

\* C2: in the as_completed loop, whatever the order of completion, the result
\* list has one slot per image, the slot of every future yielded so far holds
\* the outcome of the job submitted for that image, the other slots are still
\* unset, and once the loop is exhausted no slot is unset.
C2_ResultsByImageIndex ==
    pc = "collect" =>
       /\ Len(image_results) = Len(extracted_images)
       /\ \A i \in DOMAIN image_results :
             IF i \in yielded
             THEN /\ image_results[i] = OutcomeOf(i)
                  /\ image_results[i].kind # "none"
                  /\ image_results[i].img = extracted_images[i]
             ELSE image_results[i] = NoAnalysis

\* three images, the second and third collected before the first
C2_Witness ==
    /\ pc = "collect"
    /\ Len(extracted_images) = 3
    /\ yielded = {2, 3}
    /\ image_results[3].kind # "none"
    /\ image_results[1].kind = "none"

\* the job of image i failed: the image could not be decoded (the job raised)
\* or the remote call failed (the job returned an error string)
JobFailed(i) == future_images[i].raised \/ future_images[i].value.kind = "err"

\* C3: failing image jobs never keep the handler from publishing, and what is
\* published holds, for every image, an error string where the job failed and
\* the job's analysis where it did not, next to the summary job's own result.
C3_FailuresStayInTheirSlot ==
    [][ /\ pc' = "unwind" => future_summary.raised
        /\ (pc = "collect" /\ pc' = "idle") =>
              /\ DOMAIN analysis_results' = {"summary", "images"}
              /\ analysis_results'.summary = future_summary.value
              /\ Len(analysis_results'.images) = Len(extracted_images)
              /\ \A i \in DOMAIN extracted_images :
                    analysis_results'.images[i] =
                       Analysis(IF JobFailed(i) THEN "err" ELSE "ok",
                                extracted_images[i], runs) ]_vars

\* published: image 1 analysed, image 2 a failed remote call, image 3 undecodable
C3_Witness ==
    /\ pc = "idle"
    /\ HasResults
    /\ file_id = "fA"
    /\ Len(analysis_results.images) = 3
    /\ analysis_results.images[1].kind = "ok"
    /\ analysis_results.images[2].kind = "err"
    /\ analysis_results.images[3].kind = "err"
    /\ analysis_results.images[3].img \in Undecodable
    /\ analysis_results.summary.kind = "ok"

\* C4: the summary job never raises; the handler always ends by publishing,
\* with the summary slot holding what the summary job returned (its text or its
\* error string) for the text submitted and with one result per image.
C4_SummaryFailureIsAString ==
    [][ /\ future_summary'.st = "done" =>
              /\ ~future_summary'.raised
              /\ future_summary'.value.kind \in {"ok", "err"}
              /\ future_summary'.value.text = extracted_text
        /\ (pc # "idle" /\ pc' = "idle") =>
              /\ DOMAIN analysis_results' = {"summary", "images"}
              /\ analysis_results'.summary = future_summary.value
              /\ screen'.results
              /\ screen'.error = "none"
              /\ Len(analysis_results'.images) = Len(extracted_images)
              /\ \A i \in DOMAIN extracted_images :
                    analysis_results'.images[i].kind \in {"ok", "err"} ]_vars

\* published: the summary slot holds an error string, the three image slots
\* their results
C4_Witness ==
    /\ pc = "idle"
    /\ HasResults
    /\ analysis_results.summary.kind = "err"
    /\ screen.results
    /\ screen.summary.kind = "err"
    /\ Len(analysis_results.images) = 3
    /\ \A i \in 1..3 : analysis_results.images[i].kind # "none"

\* C5: a request clears what is stored while it runs and submits the summary
\* job again; what is stored afterwards is the outcome of the latest request,
\* never the value (a summary or a failure) that request found.
C5_LatestRequestWins ==
    /\ pc # "idle" =>
          /\ ~HasResults
          /\ future_summary.st \in {"queued", "running", "done"}
    /\ HasResults =>
          /\ analysis_results.summary.run = runs
          /\ \A i \in DOMAIN analysis_results.images :
                analysis_results.images[i].run = runs
          /\ DOMAIN prior # {} => analysis_results.summary # prior.summary

\* a second request on the same file found a failure stored and ended with a
\* summary
C5_Witness ==
    /\ pc = "idle"
    /\ runs = 2
    /\ HasResults
    /\ DOMAIN prior # {}
    /\ prior.summary.kind = "err"
    /\ prior.summary.text = analysis_results.summary.text
    /\ analysis_results.summary.kind = "ok"
    /\ analysis_results.summary.run = 2

\* the image references of a document, page after page, each page's in its
\* listed order
RECURSIVE RefsOf(_)
RefsOf(pages) ==
    IF pages = << >> THEN << >> ELSE Head(pages).refs \o RefsOf(Tail(pages))

\* the references among refs that can be extracted, in their order
RECURSIVE Extractable(_, _)
Extractable(refs, bad) ==
    IF refs = << >> THEN << >>
    ELSE (IF Head(refs) \in bad THEN << >> ELSE <<Head(refs)>>)
         \o Extractable(Tail(refs), bad)

Failures(refs, bad) == Cardinality({i \in DOMAIN refs : refs[i] \in bad})

\* C6: for a document that opens, extract_images_from_pdf returns, whatever
\* references fail: the blobs of the references that can be extracted, in the
\* order of the references, as many as there are references minus failures.
C6_FailingImagesAreSkipped ==
    (extraction.done /\ pdf.valid) =>
       LET refs == RefsOf(pdf.pages)
           good == Extractable(refs, pdf.bad)
       IN /\ ~extraction.raised
          /\ Len(extraction.value) = Len(refs) - Failures(refs, pdf.bad)
          /\ extraction.value = [i \in DOMAIN good |-> ImageBytes(good[i])]

\* a failing reference is followed by one that is extracted
C6_Witness ==
    /\ extraction.done
    /\ pdf.valid
    /\ \E i, j \in DOMAIN RefsOf(pdf.pages) :
          /\ i < j
          /\ RefsOf(pdf.pages)[i] \in pdf.bad
          /\ RefsOf(pdf.pages)[j] \notin pdf.bad
    /\ extraction.value # << >>

\* how often v occurs in the sequence s
Occurrences(s, v) == Cardinality({i \in DOMAIN s : s[i] = v})

FirstIndex(s, v) == CHOOSE i \in DOMAIN s : s[i] = v /\ \A j \in 1..(i - 1) : s[j] # v

\* C7 as stated: the images sequence holds every embedded image that can be
\* extracted exactly once, at the position of its first reference.
C7_OneBlobPerImage ==
    (extraction.done /\ pdf.valid) =>
       LET refs == RefsOf(pdf.pages)
           present == Range(refs) \ pdf.bad
       IN /\ \A x \in Xrefs :
                Occurrences(extraction.value, ImageBytes(x)) =
                   (IF x \in present THEN 1 ELSE 0)
          /\ \A x, y \in present :
                FirstIndex(refs, x) < FirstIndex(refs, y) =>
                   \E i, j \in DOMAIN extraction.value :
                      /\ i < j
                      /\ extraction.value[i] = ImageBytes(x)
                      /\ extraction.value[j] = ImageBytes(y)

\* C7 as amended: the images sequence holds one blob per image reference that
\* can be extracted, so an embedded image referenced k times appears k times,
\* and the images appear in the order of their first references.
C7_OneBlobPerReference ==
    (extraction.done /\ pdf.valid) =>
       LET refs == RefsOf(pdf.pages)
           present == Range(refs) \ pdf.bad
       IN /\ \A x \in Xrefs :
                Occurrences(extraction.value, ImageBytes(x)) =
                   (IF x \in pdf.bad THEN 0 ELSE Occurrences(refs, x))
          /\ \A x, y \in present :
                FirstIndex(refs, x) < FirstIndex(refs, y) =>
                   FirstIndex(extraction.value, ImageBytes(x))
                      < FirstIndex(extraction.value, ImageBytes(y))

\* an image referenced on two pages is extracted twice
C7_Witness ==
    /\ extraction.done
    /\ Len(pdf.pages) = 2
    /\ \E x \in Xrefs \ pdf.bad :
          /\ x \in Range(pdf.pages[1].refs)
          /\ x \in Range(pdf.pages[2].refs)
          /\ Occurrences(extraction.value, ImageBytes(x)) >= 2

\* C8: the memo of either extraction holds, under every file_id, the
\* extraction of the bytes stored under that file_id, and the text and images
\* a run dispatches and displays are those of the current file.
C8_ExtractionOfCurrentFile ==
    /\ \A f \in DOMAIN cache_text : cache_text[f] = TextOf(f)
    /\ \A f \in DOMAIN cache_images : cache_images[f] = ImagesOf(f)
    /\ pc # "idle" =>
          /\ extracted_text = TextOf(file_id)
          /\ extracted_images = ImagesOf(file_id)
    /\ (pc = "idle" /\ screen.extracted) =>
          /\ uploaded_file = file_id
          /\ file_id \in DOMAIN cache_text
          /\ file_id \in DOMAIN cache_images
    /\ (pc = "idle" /\ screen.results) =>
          /\ screen.count = Len(ImagesOf(file_id))
          /\ \A i \in DOMAIN screen.pairs : screen.pairs[i].img = ImagesOf(file_id)[i]

\* back on fA, uploaded before fB was: both extractions are memoized, the
\* results on the page are paired with the three images of fA
C8_Witness ==
    /\ pc = "idle"
    /\ file_id = "fA"
    /\ DOMAIN cache_images = {"fA", "fB"}
    /\ screen.results
    /\ Len(screen.pairs) = 1
    /\ screen.count = 3

Valid(f) == FileBytes(f).valid

\* C9: nothing is memoized for bytes that are no PDF; while such a file is in
\* the uploader the run has ended with the exception on the page, without the
\* analyze button and without results, and no handler runs; while a valid
\* file is in the uploader its extraction is complete and the button is there.
C9_MalformedDocument ==
    /\ \A f \in FileIds :
          ~Valid(f) => f \notin DOMAIN cache_text /\ f \notin DOMAIN cache_images
    /\ (uploaded_file # None /\ ~Valid(uploaded_file)) =>
          /\ pc = "idle"
          /\ screen.error = "exception"
          /\ ~screen.extracted
          /\ ~screen.button
          /\ ~screen.results
    /\ (uploaded_file # None /\ Valid(uploaded_file)) =>
          /\ screen.error = "none"
          /\ screen.extracted
          /\ screen.button
          /\ uploaded_file \in DOMAIN cache_text
          /\ uploaded_file \in DOMAIN cache_images

\* a file that is no PDF is in the uploader, after results were stored for
\* another file
C9_Witness ==
    /\ uploaded_file = "fC"
    /\ file_id = "fC"
    /\ "fC" \in DOMAIN uploaded_files
    /\ "fA" \in DOMAIN cache_text
    /\ screen.error = "exception"

\* C10: without the credential every run ends at the configuration check: the
\* session state has no key, the uploader holds nothing, nothing was stored,
\* extracted or memoized, no request was made and no job exists.
C10_MissingCredentialHalts ==
    api_key = "absent" =>
       /\ session_keys = {}
       /\ screen \in {NothingRendered, ConfigErrorScreen}
       /\ uploaded_file = None
       /\ file_id = None
       /\ DOMAIN uploaded_files = {}
       /\ DOMAIN analysis_results = {}
       /\ DOMAIN cache_text = {}
       /\ DOMAIN cache_images = {}
       /\ pc = "idle"
       /\ runs = 0
       /\ future_summary.st = "none"
       /\ future_images = << >>

\* a run has ended at the configuration check
C10_Witness ==
    /\ api_key = "absent"
    /\ screen = ConfigErrorScreen

(***************************************************************************)
(* The slots of the controller: the summary and one slot per image.  A     *)
(* slot is Pending while the handler runs, Unrequested when nothing is     *)
(* stored for it, and Done or Failed by the string stored for it.          *)
(***************************************************************************)
SlotOf(kind) == IF kind = "ok" THEN "Done" ELSE "Failed"

SummarySlot ==
    IF pc # "idle" THEN "Pending"
    ELSE IF ~HasResults THEN "Unrequested"
    ELSE SlotOf(analysis_results.summary.kind)

ImageSlot(i) ==
    IF pc # "idle"
    THEN (IF i \in DOMAIN extracted_images THEN "Pending" ELSE "Unrequested")
    ELSE IF HasResults /\ i \in DOMAIN analysis_results.images
    THEN SlotOf(analysis_results.images[i].kind)
    ELSE "Unrequested"

\* the image indexes of the files of the catalogue
SlotIndexes == UNION {DOMAIN extract_images(FileBytes(f)).value : f \in FileIds}

SlotEdges ==
    { <<"Unrequested", "Pending">>, <<"Pending", "Done">>, <<"Pending", "Failed">>,
      <<"Done", "Pending">>, <<"Failed", "Pending">> }

\* a change of a slot from a to b in a step: an edge of the life cycle, or the
\* reset that comes with a change of the current file
AllowedChange(a, b) ==
    \/ a = b
    \/ <<a, b>> \in SlotEdges
    \/ b = "Unrequested" /\ file_id' # file_id

ImageSlots ==
    IF pc # "idle" THEN DOMAIN extracted_images
    ELSE IF HasResults THEN DOMAIN analysis_results.images
    ELSE {}

WorkerStep ==
    /\ pc # "idle"
    /\ pc' = pc
    /\ <<future_summary, future_images>>' # <<future_summary, future_images>>

\* C12: the session state is written by the UI thread only, a worker's step
\* leaves it alone; inside the handler the results are written once, when the
\* loop is exhausted, every job is done and no worker runs; and what the
\* session holds is nothing or a summary with a result for every image.
C12_PublishedByUiThreadAfterJoin ==
    /\ [][ /\ WorkerStep =>
                UNCHANGED <<session_keys, uploaded_files, analysis_results, file_id>>
           /\ (pc # "idle" /\ analysis_results' # analysis_results) =>
                /\ pc = "collect"
                /\ pc' = "idle"
                /\ AllDone
                /\ Running = 0
                /\ yielded = DOMAIN future_images
                /\ analysis_results' = [summary |-> summary_result, images |-> image_results]
         ]_vars
    /\ [](/\ pc # "idle" => ~HasResults
          /\ HasResults =>
                /\ DOMAIN analysis_results = {"summary", "images"}
                /\ analysis_results.summary.kind # "none"
                /\ \A i \in DOMAIN analysis_results.images :
                      analysis_results.images[i].kind # "none")

\* every job is done and two results are collected, the third is not: the
\* session holds nothing yet
C12_Witness ==
    /\ pc = "collect"
    /\ AllDone
    /\ Len(future_images) = 3
    /\ Cardinality(yielded) = 2
    /\ ~HasResults
    /\ summary_result.kind # "none"

(***************************************************************************)
(* Progress.  The worker threads and the UI thread are scheduled, and every *)
(* remote call returns or fails: a step of the handler that stays possible *)
(* is taken.  Nothing is assumed of the user's events.                     *)
(***************************************************************************)
Fairness ==
    /\ WF_vars(WorkerTake)
    /\ WF_vars(\E api \in ApiOutcomes : SummaryJob(api))
    /\ WF_vars(\E i \in 1..Len(future_images), api \in ApiOutcomes : VisionJob(i, api))
    /\ WF_vars(SummaryResult)
    /\ WF_vars(\E i \in 1..Len(future_images) : CollectNext(i))
    /\ WF_vars(ExitPool)

SpecLive == Spec /\ Fairness

\* the stages of a future, in their order
Stage(st) == CASE st = "queued" -> 1 [] st = "running" -> 2 [] st = "done" -> 3 [] OTHER -> 0

\* C13: a request that was dispatched ends with its results published; while
\* it runs no job goes back or is dropped (a job is queued, then running, then
\* done), and when the handler returns every job is done and no worker runs.
C13_RequestCompletes ==
    /\ (pc # "idle") ~> (pc = "idle" /\ HasResults)
    /\ [][ /\ (pc # "idle" /\ pc' # "idle") =>
                /\ Stage(future_summary'.st) >= Stage(future_summary.st)
                /\ DOMAIN future_images' = DOMAIN future_images
                /\ \A i \in DOMAIN future_images :
                      Stage(future_images'[i].st) >= Stage(future_images[i].st)
           /\ (pc # "idle" /\ pc' = "idle") =>
                /\ AllDone
                /\ Running = 0
                /\ HasResults'
                /\ Len(analysis_results'.images) = Len(future_images)
         ]_vars

\* with a pool of one worker, a request for three images has been published
C13_Witness ==
    /\ max_workers = 1
    /\ pc = "idle"
    /\ HasResults
    /\ Len(analysis_results.images) = 3
    /\ calls.summary = 1
    /\ screen.results

\* the handler is about to leave the with-block with its results
AboutToPublish == pc = "collect" /\ LoopExhausted

\* C14 as stated: by the end of a request its jobs have issued one summarizer
\* call and one vision call for every extracted image, 1 + N remote calls.
C14_OneCallPerImage ==
    /\ calls.summary <= 1
    /\ \A i \in DOMAIN calls.images : calls.images[i] <= 1
    /\ AboutToPublish =>
          /\ calls.summary = 1
          /\ Len(calls.images) = Len(extracted_images)
          /\ \A i \in DOMAIN extracted_images : calls.images[i] = 1

\* C14 as amended: one summarizer job and one vision job per extracted image
\* are submitted; the summarizer job issues one call, a vision job one call if
\* its image decodes and none if it does not; no job issues a second call, and
\* a failed job's error string is what the request stores in its slot.
C14_OneCallPerDecodableImage ==
    /\ calls.summary <= 1
    /\ \A i \in DOMAIN calls.images : calls.images[i] <= 1
    /\ pc # "idle" =>
          /\ Len(future_images) = Len(extracted_images)
          /\ Len(calls.images) = Len(extracted_images)
          /\ calls.summary = (IF future_summary.st = "done" THEN 1 ELSE 0)
          /\ \A i \in DOMAIN extracted_images :
                calls.images[i] =
                   (IF future_images[i].st = "done" /\ extracted_images[i] \notin Undecodable
                    THEN 1 ELSE 0)
    /\ AboutToPublish =>
          /\ summary_result = future_summary.value
          /\ future_summary.value.kind = "err" => summary_result.kind = "err"
          /\ \A i \in DOMAIN extracted_images :
                JobFailed(i) => image_results[i] = Analysis("err", extracted_images[i], runs)

\* a request for three images is about to publish: the summarizer call failed,
\* the second image's call failed, the third image could not be decoded
C14_Witness ==
    /\ AboutToPublish
    /\ Len(extracted_images) = 3
    /\ summary_result.kind = "err"
    /\ calls.summary = 1
    /\ calls.images = <<1, 1, 0>>
    /\ image_results[1].kind = "ok"
    /\ image_results[2].kind = "err"
    /\ image_results[3].kind = "err"

\* C15: what the session stores is nothing or a summary and an image list, and
\* whenever results are on the page for the current file the stored list has
\* one analysis per image extracted from that file, so that the pairing of
\* images and analyses leaves out neither an image nor an analysis.
C15_OneAnalysisPerDisplayedImage ==
    /\ HasResults => DOMAIN analysis_results = {"summary", "images"}
    /\ (pc = "idle" /\ screen.results) =>
          /\ Len(analysis_results.images) = Len(ImagesOf(file_id))
          /\ Len(screen.pairs) = screen.count
          /\ Len(screen.pairs) = Len(analysis_results.images)

\* a script run that is no request: the UI thread is idle before and after
PlainRun == pc = "idle" /\ pc' = "idle"

\* C16: a run for a file_id that is stored already, without the button, leaves
\* uploaded_files and analysis_results as they are and shows the stored results
\* whenever the file's extraction succeeds; and no step removes an entry of
\* uploaded_files or replaces what is stored under a file_id.
C16_StoredFilesAndResultsKept ==
    [][ /\ (PlainRun /\ uploaded_file' # None /\ uploaded_file' \in DOMAIN uploaded_files) =>
              /\ uploaded_files' = uploaded_files
              /\ analysis_results' = analysis_results
              /\ screen'.extracted => screen'.results = HasResults
              /\ (screen'.extracted /\ HasResults) =>
                    screen'.summary = analysis_results.summary
        /\ \A f \in DOMAIN uploaded_files :
              /\ f \in DOMAIN uploaded_files'
              /\ uploaded_files'[f] = uploaded_files[f]
      ]_vars

\* the uploader holds a file that was stored before the file the results on the
\* page were computed from, and three files are stored
C16_Witness ==
    /\ pc = "idle"
    /\ HasResults
    /\ screen.results
    /\ uploaded_file # None
    /\ screen.summary.text # TextOf(uploaded_file)
    /\ Cardinality(DOMAIN uploaded_files) = 3

====
